---------------------------- MODULE Spec2Model ----------------------------
(***************************************************************************)
(* A model of the LogRocket log viewer: the session state of LogViewerApp  *)
(* (src/src/app.rs), the line parser (src/src/log_parser.rs), the search   *)
(* state (src/src/search.rs) and the file watcher (src/src/file_watcher.rs)*)
(*                                                                         *)
(* Text is a sequence of tokens.  Each token stands for one character or   *)
(* for a fixed fragment of a line that the parser's regular expressions    *)
(* treat as a unit:                                                        *)
(*   "n"  the newline character                                            *)
(*   "s"  a space                                                          *)
(*   "x"  an ordinary lower-case character, "X" its upper-case form        *)
(*   "y"  another ordinary lower-case character                            *)
(*   "("  an opening parenthesis                                           *)
(*   "E"  the fragment "01.01.2024 10:00:00.000 *ERROR* [main] "           *)
(*   "W"  the fragment "01.01.2024 10:00:00.000 *warn* [main] "            *)
(*   "U"  the fragment "01.01.2024 10:00:00.000 *FOO* [main] "             *)
(*   "I"  the fragment "01.01.2024 10:00:00.000 *INFO* [main] "            *)
(*   "G"  the fragment "01.01.2024 10:00:00.000 *debug* [main] "           *)
(*   "T"  the fragment "01.01.2024 10:00:00.000 *Trace* [main] "           *)
(*   "A"  the fragment "10.0.0.1 - - 01/Jan/2024:10:00:00 +0000 "          *)
(*   "D"  the fragment "01." (two digits and a dot, nothing more)          *)
(*   "c3", "a9"  the two bytes of the character U+00E9 (e with an acute    *)
(*        accent) in UTF-8, always next to each other and in this order    *)
(*   "M"  a run of 999,997 ordinary characters, none of them a newline;    *)
(*        "m" is what is left of such a run when a read starts inside it   *)
(* A file's size and every offset count bytes: one for every token but     *)
(* "M", fragments included.                                                *)
(***************************************************************************)
EXTENDS Integers, Sequences, FiniteSets, TLC

(* ------------------------------ bounds -------------------------------- *)

\* The writer appends at most this many chunks over a run.
MaxAppends == 2

(* --------------------------- program constants ------------------------ *)

LargeFileThreshold == 10000000

TailSize == 2000000

(* ------------------------------- text --------------------------------- *)

StructuredHeads == {"E", "W", "U", "I", "G", "T"}

AccessHeads == {"A"}

DigitHeads == {"D"}

Whitespace == {"s", "n"}

None == <<>>

Some(v) == <<v>>

Min(a, b) == IF a < b THEN a ELSE b

\* The index of the first "n" of s, 0 when there is none.
RECURSIVE FirstNewlineFrom(_, _)
FirstNewlineFrom(s, i) ==
    IF i > Len(s) THEN 0
    ELSE IF s[i] = "n" THEN i
    ELSE FirstNewlineFrom(s, i + 1)

\* str::lines(): the pieces between newlines, a last piece without its
\* newline included, no empty piece after a final newline.
RECURSIVE Lines(_)
Lines(s) ==
    IF s = <<>> THEN <<>>
    ELSE LET k == FirstNewlineFrom(s, 1)
         IN  IF k = 0 THEN <<s>>
             ELSE <<SubSeq(s, 1, k - 1)>> \o Lines(SubSeq(s, k + 1, Len(s)))

\* BufRead::read_line called until it returns 0: each piece keeps its
\* newline; the last piece is whatever precedes the end of the file.
RECURSIVE ReadLines(_)
ReadLines(s) ==
    IF s = <<>> THEN <<>>
    ELSE LET k == FirstNewlineFrom(s, 1)
         IN  IF k = 0 THEN <<s>>
             ELSE <<SubSeq(s, 1, k)>> \o ReadLines(SubSeq(s, k + 1, Len(s)))

\* str::trim_end(): without the trailing whitespace.
RECURSIVE TrimEnd(_)
TrimEnd(s) ==
    IF s = <<>> THEN s
    ELSE IF s[Len(s)] \in Whitespace THEN TrimEnd(SubSeq(s, 1, Len(s) - 1))
    ELSE s

\* line.trim().is_empty()
IsBlank(s) == \A i \in 1..Len(s) : s[i] \in Whitespace

\* The index of the first space of s, 0 when there is none.
RECURSIVE FirstSpaceFrom(_, _)
FirstSpaceFrom(s, i) ==
    IF i > Len(s) THEN 0
    ELSE IF s[i] = "s" THEN i
    ELSE FirstSpaceFrom(s, i + 1)

(* ------------------------------ parser -------------------------------- *)

\* error_log_regex with the access-log heads accepted as well.
ErrorLogMatch_or_access(line) ==
    /\ Len(line) >= 2
    /\ line[1] \in StructuredHeads \cup AccessHeads
    /\ \A i \in 2..Len(line) : line[i] # "n"

\* error_log_regex: the head, whitespace, and a rest of one character or
\* more, none of them a newline.
ErrorLogMatch(line) ==
    /\ Len(line) >= 2
    /\ line[1] \in StructuredHeads
    /\ \A i \in 2..Len(line) : line[i] # "n"

\* access_log_regex, likewise.
AccessLogMatch(line) ==
    /\ Len(line) >= 2
    /\ line[1] \in AccessHeads
    /\ \A i \in 2..Len(line) : line[i] # "n"

\* timestamp_start_pattern ^\d{2}[./]: every head begins with two digits
\* and a dot ("01.", "10.").
TimestampStart(line) ==
    /\ Len(line) >= 1
    /\ line[1] \in StructuredHeads \cup AccessHeads \cup DigitHeads

\* Capture group 4, (.+)$ after \s+: the greedy \s+ takes the spaces that
\* follow the head as long as one character is left for the group.
RECURSIVE RestOf(_)
RestOf(t) ==
    IF Len(t) >= 2 /\ t[1] = "s" THEN RestOf(Tail(t)) ELSE t

\* Capture group 2, (\w+) between the asterisks.
LevelToken(head) ==
    CASE head = "E" -> "ERROR"
      [] head = "W" -> "warn"
      [] head = "I" -> "INFO"
      [] head = "G" -> "debug"
      [] head = "T" -> "Trace"
      [] OTHER      -> "FOO"

\* to_uppercase without the conversion: the token as it is in the line.
ToUppercase_identity(tok) == tok

\* level_str.to_uppercase()
ToUppercase(tok) ==
    CASE tok = "warn"  -> "WARN"
      [] tok = "debug" -> "DEBUG"
      [] tok = "Trace" -> "TRACE"
      [] OTHER         -> tok

\* The match on the upper-cased token without its arms: the token itself.
LevelOf_passthrough(tok) == ToUppercase(tok)

LevelOf(tok) ==
    CASE ToUppercase(tok) = "INFO"  -> "Info"
      [] ToUppercase(tok) = "WARN"  -> "Warn"
      [] ToUppercase(tok) = "ERROR" -> "Error"
      [] ToUppercase(tok) = "DEBUG" -> "Debug"
      [] ToUppercase(tok) = "TRACE" -> "Trace"
      [] OTHER                      -> "Unknown"

Levels == {"Info", "Warn", "Error", "Debug", "Trace", "Unknown"}

parse_line(line, line_number) ==
    IF ErrorLogMatch(line) THEN
        LET rest == RestOf(Tail(line))
            sp   == FirstSpaceFrom(rest, 1)
        IN  [ line_number  |-> line_number,
              timestamp    |-> Some("01.01.2024 10:00:00.000"),
              level        |-> LevelOf(LevelToken(line[1])),
              thread       |-> Some("main"),
              class        |-> Some(IF sp = 0 THEN rest
                                    ELSE SubSeq(rest, 1, sp - 1)),
              message      |-> IF sp = 0 THEN rest
                               ELSE SubSeq(rest, sp + 1, Len(rest)),
              raw_line     |-> line,
              is_error_log |-> TRUE ]
    ELSE IF AccessLogMatch(line) THEN
        [ line_number  |-> line_number,
          timestamp    |-> Some("01/Jan/2024:10:00:00 +0000"),
          level        |-> "Info",
          thread       |-> None,
          class        |-> None,
          message      |-> <<"10.0.0.1 - - - ">> \o RestOf(Tail(line)),
          raw_line     |-> line,
          is_error_log |-> FALSE ]
    ELSE
        [ line_number  |-> line_number,
          timestamp    |-> None,
          level        |-> "Unknown",
          thread       |-> None,
          class        |-> None,
          message      |-> line,
          raw_line     |-> line,
          is_error_log |-> FALSE ]

StartsNewEntry(line) ==
    ErrorLogMatch(line) \/ AccessLogMatch(line) \/ TimestampStart(line)

\* is_continuation without the test for a blank line.
IsContinuation_absorbs_blank(line) == ~StartsNewEntry(line)

IsContinuation(line) == ~StartsNewEntry(line) /\ ~IsBlank(line)

\* The inner loop of parse_file: the index after the continuation lines
\* that follow line i - 1.
RECURSIVE ContinuationEnd(_, _)
ContinuationEnd(lines, i) ==
    IF i <= Len(lines) /\ IsContinuation(lines[i])
    THEN ContinuationEnd(lines, i + 1)
    ELSE i

\* full_text: lines i..j-1 joined by newlines.
RECURSIVE JoinLines(_, _, _)
JoinLines(lines, i, j) ==
    IF i >= j THEN <<>>
    ELSE IF i = j - 1 THEN lines[i]
    ELSE lines[i] \o <<"n">> \o JoinLines(lines, i + 1, j)

\* The outer loop of parse_file from index i (1-based).
RECURSIVE ParseFrom(_, _)
ParseFrom(lines, i) ==
    IF i > Len(lines) THEN <<>>
    ELSE IF StartsNewEntry(lines[i]) THEN
        LET j     == ContinuationEnd(lines, i + 1)
            entry == [parse_line(lines[i], i) EXCEPT
                        !.raw_line = JoinLines(lines, i, j)]
        IN  <<entry>> \o ParseFrom(lines, j)
    ELSE ParseFrom(lines, i + 1)

\* The outer loop with an else branch that pushes the line it meets as an
\* entry of its own.
RECURSIVE ParseFromKeepsOrphans(_, _)
ParseFromKeepsOrphans(lines, i) ==
    IF i > Len(lines) THEN <<>>
    ELSE IF StartsNewEntry(lines[i]) THEN
        LET j     == ContinuationEnd(lines, i + 1)
            entry == [parse_line(lines[i], i) EXCEPT
                        !.raw_line = JoinLines(lines, i, j)]
        IN  <<entry>> \o ParseFromKeepsOrphans(lines, j)
    ELSE <<parse_line(lines[i], i)>> \o ParseFromKeepsOrphans(lines, i + 1)

parse_file_keeps_orphans(content) == ParseFromKeepsOrphans(Lines(content), 1)

parse_file(content) == ParseFrom(Lines(content), 1)

(* ------------------------------ search -------------------------------- *)

\* char::to_lowercase on one token.
ToLower(c) == IF c = "X" THEN "x" ELSE c

ToLowercase(s) == [i \in 1..Len(s) |-> ToLower(s[i])]

\* Regex::new: a pattern with an unclosed group does not compile.
RegexCompiles(pattern) == \A i \in 1..Len(pattern) : pattern[i] # "("

OccursAt(text, q, p) ==
    /\ p + Len(q) <= Len(text)
    /\ \A k \in 1..Len(q) : text[p + k] = q[k]

\* str::find from a 0-based offset: the first offset >= start at which q
\* occurs in text, -1 when there is none.
RECURSIVE FindFrom(_, _, _)
FindFrom(text, q, start) ==
    IF start + Len(q) > Len(text) THEN -1
    ELSE IF OccursAt(text, q, start) THEN start
    ELSE FindFrom(text, q, start + 1)

\* The plain-text loop: start = actual_pos + 1 after every hit; the span's
\* end is computed from the length of the query as typed.
RECURSIVE PlainPositions(_, _, _, _)
PlainPositions(text, q, qlen, start) ==
    LET pos == FindFrom(text, q, start)
    IN  IF pos < 0 THEN <<>>
        ELSE <<(<<pos, pos + qlen>>)>> \o PlainPositions(text, q, qlen, pos + 1)

\* str::is_char_boundary: offset i (0-based) is the start or the end of the
\* text, or the byte at i is not a continuation byte.
IsCharBoundary(text, i) ==
    \/ i = 0
    \/ i = Len(text)
    \/ i < Len(text) /\ text[i + 1] # "a9"

\* Whether the plain-text loop panics: the slice search_text[start..] does
\* when start, one byte past the last hit, is not a character boundary.
RECURSIVE PlainPanics(_, _, _)
PlainPanics(text, q, start) ==
    IF ~IsCharBoundary(text, start) THEN TRUE
    ELSE LET pos == FindFrom(text, q, start)
         IN  IF pos < 0 THEN FALSE ELSE PlainPanics(text, q, pos + 1)

\* regex.find_iter for a literal pattern: the next search starts at the end
\* of the previous match.
RECURSIVE RegexPositions(_, _, _, _)
RegexPositions(text, q, fold, start) ==
    LET t   == IF fold THEN ToLowercase(text) ELSE text
        p   == IF fold THEN ToLowercase(q) ELSE q
        pos == FindFrom(t, p, start)
    IN  IF pos < 0 THEN <<>>
        ELSE <<(<<pos, pos + Len(q)>>)>> \o
             RegexPositions(text, q, fold, pos + Len(q))

\* The positions of one entry's raw_line (the body of the for loop).
EntryPositions(s, text) ==
    IF s.use_regex /\ RegexCompiles(s.query)
    THEN RegexPositions(text, s.query, ~s.case_sensitive, 0)
    ELSE PlainPositions(
             IF s.case_sensitive THEN text ELSE ToLowercase(text),
             IF s.case_sensitive THEN s.query ELSE ToLowercase(s.query),
             Len(s.query), 0)

\* The pairs pushed when the test for an empty position list is left out:
\* one pair for every entry.
RECURSIVE MatchPositionsFrom_every_entry(_, _, _)
MatchPositionsFrom_every_entry(s, es, i) ==
    IF i > Len(es) THEN <<>>
    ELSE <<(<<i - 1, EntryPositions(s, es[i].raw_line)>>)>>
         \o MatchPositionsFrom_every_entry(s, es, i + 1)

RECURSIVE MatchPositionsFrom(_, _, _)
MatchPositionsFrom(s, es, i) ==
    IF i > Len(es) THEN <<>>
    ELSE LET pos == EntryPositions(s, es[i].raw_line)
         IN  (IF pos = <<>> THEN <<>> ELSE <<(<<i - 1, pos>>)>>)
             \o MatchPositionsFrom(s, es, i + 1)

SearchNew ==
    [ query             |-> <<>>,
      case_sensitive    |-> FALSE,
      use_regex         |-> FALSE,
      show_only_matches |-> FALSE,
      matches           |-> <<>>,
      current_match     |-> None,
      regex             |-> None,
      match_positions   |-> <<>> ]

\* Whether update_search panics instead of returning.
SearchPanics(s, es) ==
    /\ s.query # <<>>
    /\ ~(s.use_regex /\ RegexCompiles(s.query))
    /\ \E i \in 1..Len(es) :
          PlainPanics(
              IF s.case_sensitive THEN es[i].raw_line
              ELSE ToLowercase(es[i].raw_line),
              IF s.case_sensitive THEN s.query ELSE ToLowercase(s.query), 0)

\* update_search without the reset of current_match at its start and
\* without the assignment of Some(0) at its end.
update_search_keeps_cursor(s, es) ==
    IF s.query = <<>> THEN
        [s EXCEPT !.matches = <<>>, !.regex = None, !.match_positions = <<>>]
    ELSE
        LET mp == MatchPositionsFrom(s, es, 1)
        IN  [s EXCEPT
               !.matches = [k \in 1..Len(mp) |-> mp[k][1]],
               !.regex = IF s.use_regex /\ RegexCompiles(s.query)
                         THEN Some(<<s.case_sensitive, s.query>>) ELSE None,
               !.match_positions = mp]

\* SearchState::update_search: the state after the call.
update_search(s, es) ==
    IF s.query = <<>> THEN
        [s EXCEPT !.matches = <<>>, !.current_match = None,
                  !.regex = None, !.match_positions = <<>>]
    ELSE
        LET mp == MatchPositionsFrom(s, es, 1)
            ms == [k \in 1..Len(mp) |-> mp[k][1]]
        IN  [s EXCEPT
               !.matches = ms,
               !.current_match = IF ms = <<>> THEN None ELSE Some(0),
               !.regex = IF s.use_regex /\ RegexCompiles(s.query)
                         THEN Some(<<s.case_sensitive, s.query>>) ELSE None,
               !.match_positions = mp]

\* next_match without the remainder by matches.len().
next_match_no_wrap(s) ==
    IF s.current_match # None
    THEN [s EXCEPT !.current_match = Some(s.current_match[1] + 1)]
    ELSE IF s.matches # <<>> THEN [s EXCEPT !.current_match = Some(0)]
    ELSE s

\* SearchState::next_match: the state after the call.
next_match(s) ==
    IF s.current_match # None
    THEN [s EXCEPT !.current_match =
             Some((s.current_match[1] + 1) % Len(s.matches))]
    ELSE IF s.matches # <<>> THEN [s EXCEPT !.current_match = Some(0)]
    ELSE s

\* prev_match that stays on the first match instead of going to the last.
prev_match_stays_at_first(s) ==
    IF s.current_match # None
    THEN [s EXCEPT !.current_match =
             Some(IF s.current_match[1] = 0 THEN 0
                  ELSE s.current_match[1] - 1)]
    ELSE IF s.matches # <<>>
    THEN [s EXCEPT !.current_match = Some(Len(s.matches) - 1)]
    ELSE s

\* prev_match without the test for the first match: the cursor goes one
\* down from wherever it is.
prev_match_no_wrap(s) ==
    IF s.current_match # None
    THEN [s EXCEPT !.current_match = Some(s.current_match[1] - 1)]
    ELSE IF s.matches # <<>>
    THEN [s EXCEPT !.current_match = Some(Len(s.matches) - 1)]
    ELSE s

\* SearchState::prev_match: the state after the call.
prev_match(s) ==
    IF s.current_match # None
    THEN [s EXCEPT !.current_match =
             Some(IF s.current_match[1] = 0 THEN Len(s.matches) - 1
                  ELSE s.current_match[1] - 1)]
    ELSE IF s.matches # <<>>
    THEN [s EXCEPT !.current_match = Some(Len(s.matches) - 1)]
    ELSE s

\* SearchState::is_match
is_match(s, idx) == \E k \in 1..Len(s.matches) : s.matches[k] = idx

\* SearchState::get_match_positions: the span list of the first pair whose
\* index is idx, None when there is no such pair.
get_match_positions(s, idx) ==
    LET hits == {k \in 1..Len(s.match_positions) :
                    s.match_positions[k][1] = idx}
    IN  IF hits = {} THEN None
        ELSE Some(s.match_positions[CHOOSE k \in hits :
                                       \A j \in hits : k <= j][2])

(* ------------------------------ filter -------------------------------- *)

\* The 0-based indices of es that pass the filter closure of apply_filters.
RECURSIVE FilterFrom(_, _, _, _)
FilterFrom(es, levels, s, i) ==
    IF i > Len(es) THEN <<>>
    ELSE (IF /\ es[i].level \in levels
             /\ ~(s.show_only_matches /\ s.query # <<>> /\ ~is_match(s, i - 1))
          THEN <<i - 1>> ELSE <<>>)
         \o FilterFrom(es, levels, s, i + 1)

\* 0..n-1, what (0..self.entries.len()).collect() builds.
AllIndices(n) == [i \in 1..n |-> i - 1]

(* ------------------------------ session ------------------------------- *)

Paths == {"A", "B"}

\* What the two files hold when the program starts.
InitialContent ==
    [p \in Paths |-> IF p = "A" THEN <<"n", "E", "x", "n">>
                     ELSE <<"A", "x", "n">>]

\* What one write of the logging process appends.
Chunks == {<<"x">>, <<"n">>, <<"x", "n">>}

\* The sidebar offers a checkbox for Info, Warn, Error and Debug; the files
\* of the model hold Error, Info and Unknown entries.
ToggleLevels == {"Error"}

Queries == {<<>>, <<"x">>}

VARIABLES
    files,              \* the file system: path -> content
    appends,            \* how many chunks the writer has appended
    current_file,       \* Option<PathBuf>
    entries,            \* Vec<LogEntry>
    filtered_entries,   \* Vec<usize>
    search,             \* SearchState
    enabled_levels,     \* HashSet<LogLevel>
    tail_log,           \* LogViewerApp.tail_log
    config_tail_log,    \* LogViewerApp.config.tail_log
    last_file_size,     \* u64
    file_watcher,       \* FileWatcher: watcher, receiver (the queue), path
    pc,                 \* where the handler in progress stands
    load_path,          \* load_file's path argument while it runs
    new_size,           \* check_file_updates' new_size while it runs
    saved_size,         \* last_file_size when load_file was entered
    fault,              \* how the next I/O call of the handler will end
    load_len            \* how much of the file the last load had read

vars == <<files, appends, current_file, entries, filtered_entries, search,
          enabled_levels, tail_log, config_tail_log, last_file_size,
          file_watcher, pc, load_path, new_size, saved_size, fault,
          load_len>>

(* --------------------------- file watcher ----------------------------- *)

FileWatcherNew == [watcher |-> FALSE, receiver |-> None, path |-> None]

\* stop without the two assignments of None: only the flag the model keeps
\* for the watcher handle is cleared, the receiver and the path stay.
stop_keeps_receiver(fw) == [fw EXCEPT !.watcher = FALSE]

\* FileWatcher::stop
stop(fw) == [watcher |-> FALSE, receiver |-> None, path |-> None]

\* watch_file without the stop at its start: when notify fails the fields
\* stay those of the previous watch.
watch_file_keeps_previous(fw, path, ok) ==
    IF ok THEN [watcher |-> TRUE, receiver |-> Some(<<>>), path |-> Some(path)]
    ELSE fw

\* FileWatcher::watch_file: the old watcher is stopped first; when notify
\* fails (ok = FALSE) the ? returns before the fields are set.
watch_file(fw, path, ok) ==
    IF ok THEN [watcher |-> TRUE, receiver |-> Some(<<>>), path |-> Some(path)]
    ELSE stop(fw)

is_watching(fw) == fw.watcher

\* The items try_recv takes before the while-let loop ends: all of them, or
\* those up to and including the first one that is not Ok(Ok(event)).
RECURSIVE DrainCount(_, _)
DrainCount(q, i) ==
    IF i > Len(q) THEN Len(q)
    ELSE IF q[i].kind = "Error" THEN i
    ELSE DrainCount(q, i + 1)

\* check_for_changes without the comparison of the event's paths with the
\* watched path: any modify event of the directory counts.
check_for_changes_any_path(fw) ==
    /\ fw.receiver # None
    /\ \E i \in 1..DrainCount(fw.receiver[1], 1) :
          fw.receiver[1][i].kind = "Modify"

\* The value check_for_changes returns.
check_for_changes(fw) ==
    /\ fw.receiver # None
    /\ \E i \in 1..DrainCount(fw.receiver[1], 1) :
          /\ fw.receiver[1][i].kind = "Modify"
          /\ fw.path # None
          /\ fw.receiver[1][i].path = fw.path[1]

\* The watcher after check_for_changes.
Drained(fw) ==
    IF fw.receiver = None THEN fw
    ELSE LET q == fw.receiver[1]
         IN  [fw EXCEPT !.receiver =
                 Some(SubSeq(q, DrainCount(q, 1) + 1, Len(q)))]

\* notify's callback: the watch is on the parent directory, which holds
\* every file of the model, so a write to any of them is sent.
Notified(fw, p) ==
    IF fw.watcher
    THEN [fw EXCEPT !.receiver =
             Some(Append(fw.receiver[1], [kind |-> "Modify", path |-> p]))]
    ELSE fw

(* ------------------------------ actions ------------------------------- *)

Init ==
    /\ files = InitialContent
    /\ appends = 0
    /\ current_file = None
    /\ entries = <<>>
    /\ filtered_entries = <<>>
    /\ search = SearchNew
    /\ enabled_levels = Levels
    /\ tail_log = TRUE
    /\ config_tail_log = TRUE
    /\ last_file_size = 0
    /\ file_watcher = FileWatcherNew
    /\ pc = "idle"
    /\ load_path = None
    /\ new_size = 0
    /\ saved_size = 0
    /\ fault = "ok"
    /\ load_len = 0

\* The logging process appends a chunk to a file.
WriterAppend(p, chunk) ==
    /\ appends < MaxAppends
    /\ appends' = appends + 1
    /\ files' = [files EXCEPT ![p] = @ \o chunk]
    /\ file_watcher' = Notified(file_watcher, p)
    /\ UNCHANGED <<current_file, entries, filtered_entries, search,
                   enabled_levels, tail_log, config_tail_log, last_file_size,
                   pc, load_path, new_size, saved_size, fault, load_len>>

\* apply_filters with the level filter only.
apply_filters_levels_only(s, es, levels) ==
    LET s2 == IF s.query # <<>> THEN update_search(s, es) ELSE s
    IN  [search   |-> s2,
         filtered |-> FilterFrom(es, levels,
                                 [s2 EXCEPT !.show_only_matches = FALSE], 1)]

\* apply_filters: the search state and the filtered indices after the call.
apply_filters(s, es, levels) ==
    LET s2 == IF s.query # <<>> THEN update_search(s, es) ELSE s
    IN  [search |-> s2, filtered |-> FilterFrom(es, levels, s2, 1)]

\* The bytes of a run "M".
BlockSize == 999997

\* metadata.len(): the size of a text in bytes.
ByteSize(text) ==
    Len(text) + (BlockSize - 1) * Cardinality({i \in DOMAIN text : text[i] = "M"})

\* What a reader gets after a seek to byte k of the text.
RECURSIVE DropBytes(_, _)
DropBytes(text, k) ==
    IF k <= 0 \/ text = <<>> THEN text
    ELSE LET w == IF Head(text) = "M" THEN BlockSize ELSE 1
         IN  IF k >= w THEN DropBytes(Tail(text), k - w)
             ELSE <<"m">> \o Tail(text)

\* load_file's read with the comparison of the sizes the other way round:
\* a file of exactly the threshold is read like a large one.
ReadContent_at_threshold(file, size) ==
    IF size >= LargeFileThreshold
    THEN LET tail_size == Min(TailSize, size)
         IN  DropBytes(file, ByteSize(file) - tail_size)
    ELSE file

\* The content load_file reads once the size is known: the whole file, or
\* for a large file the tail_size bytes before the file's end.
ReadContent(file, size) ==
    IF size > LargeFileThreshold
    THEN LET tail_size == Min(TailSize, size)
         IN  DropBytes(file, ByteSize(file) - tail_size)
    ELSE file

\* load_file up to the metadata: File::open, file.metadata(), and the
\* assignment of last_file_size.  f is how the two calls end.
LoadOpen(p, f) ==
    /\ pc = "idle"
    /\ IF f # "ok"
       THEN UNCHANGED vars
       ELSE /\ last_file_size' = ByteSize(files[p])
            /\ saved_size' = last_file_size
            /\ load_path' = Some(p)
            /\ pc' = "load_read"
            /\ fault' \in {"ok", "read_err"}
            /\ UNCHANGED <<files, appends, current_file, entries,
                           filtered_entries, search, enabled_levels, tail_log,
                           config_tail_log, file_watcher, new_size,
                           load_len>>

\* load_file from the read of the content to the assignment of the entries
\* and of current_file.
LoadRead ==
    /\ pc = "load_read"
    /\ IF fault = "read_err"
       THEN /\ pc' = "idle"
            /\ load_path' = None
            /\ saved_size' = 0
            /\ fault' = "ok"
            /\ UNCHANGED <<files, appends, current_file, entries,
                           filtered_entries, search, enabled_levels, tail_log,
                           config_tail_log, last_file_size, file_watcher,
                           new_size, load_len>>
       ELSE /\ entries' = parse_file(ReadContent(files[load_path[1]],
                                                 last_file_size))
            /\ current_file' = load_path
            /\ load_len' = ByteSize(files[load_path[1]])
            /\ pc' = "load_watch"
            /\ saved_size' = 0
            /\ fault' \in (IF tail_log THEN {"ok", "watch_err"} ELSE {"ok"})
            /\ UNCHANGED <<files, appends, filtered_entries, search,
                           enabled_levels, tail_log, config_tail_log,
                           last_file_size, file_watcher, load_path, new_size>>

\* load_file from watch_file to its return, without apply_filters: the
\* filtered indices stay those of the entries replaced.
LoadWatch_keeps_filter ==
    /\ pc = "load_watch"
    /\ file_watcher' = IF tail_log
                       THEN watch_file(file_watcher, load_path[1], fault = "ok")
                       ELSE file_watcher
    /\ search' = update_search(search, entries)
    /\ pc' = "idle"
    /\ load_path' = None
    /\ fault' = "ok"
    /\ UNCHANGED <<files, appends, current_file, entries, filtered_entries,
                   enabled_levels, tail_log, config_tail_log, last_file_size,
                   new_size, saved_size, load_len>>

\* load_file from watch_file to its return.
LoadWatch ==
    /\ pc = "load_watch"
    /\ file_watcher' = IF tail_log
                       THEN watch_file(file_watcher, load_path[1], fault = "ok")
                       ELSE file_watcher
    /\ LET r == apply_filters(update_search(search, entries), entries,
                              enabled_levels)
       IN  /\ search' = r.search
           /\ filtered_entries' = r.filtered
    /\ pc' = "idle"
    /\ load_path' = None
    /\ fault' = "ok"
    /\ UNCHANGED <<files, appends, current_file, entries, enabled_levels,
                   tail_log, config_tail_log, last_file_size, new_size,
                   saved_size, load_len>>

\* check_file_updates up to check_for_changes.
TickPoll ==
    /\ pc = "idle"
    /\ IF ~tail_log \/ ~is_watching(file_watcher)
       THEN UNCHANGED vars
       ELSE /\ file_watcher' = Drained(file_watcher)
            /\ IF check_for_changes(file_watcher) /\ current_file # None
               THEN /\ pc' = "tick_stat"
                    /\ fault' \in {"ok", "stat_err"}
               ELSE UNCHANGED <<pc, fault>>
            /\ UNCHANGED <<files, appends, current_file, entries,
                           filtered_entries, search, enabled_levels, tail_log,
                           config_tail_log, last_file_size, load_path,
                           new_size, saved_size, load_len>>

\* The comparison of the sizes with a reset added: a file found shorter than
\* the watermark moves the watermark back to the file's size.
TickStat_resets_on_truncation ==
    /\ pc = "tick_stat"
    /\ IF fault = "ok" /\ ByteSize(files[current_file[1]]) > last_file_size
       THEN /\ new_size' = ByteSize(files[current_file[1]])
            /\ pc' = "tick_read"
            /\ fault' \in {"ok", "open_err", "seek_err", "read_err",
                           "read_err2"}
            /\ UNCHANGED last_file_size
       ELSE /\ new_size' = 0
            /\ pc' = "idle"
            /\ fault' = "ok"
            /\ last_file_size' =
                  IF fault = "ok"
                  THEN Min(last_file_size, ByteSize(files[current_file[1]]))
                  ELSE last_file_size
    /\ UNCHANGED <<files, appends, current_file, entries, filtered_entries,
                   search, enabled_levels, tail_log, config_tail_log,
                   file_watcher, load_path, saved_size, load_len>>

\* check_file_updates: fs::metadata and the comparison of the sizes.
TickStat ==
    /\ pc = "tick_stat"
    /\ IF fault = "ok" /\ ByteSize(files[current_file[1]]) > last_file_size
       THEN /\ new_size' = ByteSize(files[current_file[1]])
            /\ pc' = "tick_read"
            /\ fault' \in {"ok", "open_err", "seek_err", "read_err",
                           "read_err2"}
       ELSE /\ new_size' = 0
            /\ pc' = "idle"
            /\ fault' = "ok"
    /\ UNCHANGED <<files, appends, current_file, entries, filtered_entries,
                   search, enabled_levels, tail_log, config_tail_log,
                   last_file_size, file_watcher, load_path, saved_size,
                   load_len>>

\* The pieces the read_line loop gets: all of them, none when the first
\* call fails, the first one when the second call fails.
PiecesRead(pieces, f) ==
    CASE f = "read_err"  -> <<>>
      [] f = "read_err2" -> SubSeq(pieces, 1, Min(1, Len(pieces)))
      [] OTHER           -> pieces

\* new_lines: one entry per piece that is not empty once trimmed.
RECURSIVE NewLines(_, _, _)
NewLines(pieces, start_line, acc) ==
    IF pieces = <<>> THEN acc
    ELSE LET line == TrimEnd(Head(pieces))
         IN  NewLines(Tail(pieces), start_line,
                 IF line # <<>>
                 THEN Append(acc, parse_line(line, start_line + Len(acc) + 1))
                 ELSE acc)

\* Where the reader stands after the seek: a failed seek is ignored and
\* leaves the reader at the start of the file.
SeekStart(f, size) == IF f = "seek_err" THEN 0 ELSE size

\* The entries a tail step makes of the file as it is when it reads.
TailEntries(file, start, f, count) ==
    NewLines(PiecesRead(ReadLines(DropBytes(file, start)), f),
             count, <<>>)

\* An assignment in the place of Vec::extend.
Extend_replaces(es, new) == new

\* Vec::extend: the entries with the new ones after them.
Extend(es, new) == es \o new

\* check_file_updates from File::open to its return.
TickRead ==
    /\ pc = "tick_read"
    /\ LET new_lines == TailEntries(files[current_file[1]],
                                    SeekStart(fault, last_file_size), fault,
                                    Len(entries))
       IN  IF fault # "open_err" /\ new_lines # <<>>
           THEN /\ entries' = Extend(entries, new_lines)
                /\ filtered_entries' = AllIndices(Len(entries'))
                /\ search' = update_search(search, entries')
                /\ last_file_size' = new_size
           ELSE UNCHANGED <<entries, filtered_entries, search, last_file_size>>
    /\ pc' = "idle"
    /\ new_size' = 0
    /\ fault' = "ok"
    /\ UNCHANGED <<files, appends, current_file, enabled_levels, tail_log,
                   config_tail_log, file_watcher, load_path, saved_size,
                   load_len>>

\* A level checkbox of the sidebar.
ToggleLevel(l) ==
    /\ pc = "idle"
    /\ enabled_levels' = IF l \in enabled_levels THEN enabled_levels \ {l}
                         ELSE enabled_levels \cup {l}
    /\ LET r == apply_filters(search, entries, enabled_levels')
       IN  /\ search' = r.search
           /\ filtered_entries' = r.filtered
    /\ UNCHANGED <<files, appends, current_file, entries, tail_log,
                   config_tail_log, last_file_size, file_watcher, pc,
                   load_path, new_size, saved_size, fault, load_len>>

\* The search box: response.changed().  The text edit has written the
\* query when update_search runs; a panic of update_search ends the program
\* (pc = "panicked").  The other handlers that call update_search end the
\* same way, which the contents and queries of their runs never bring
\* about.
SetQuery(q) ==
    /\ pc = "idle"
    /\ q # search.query
    /\ IF SearchPanics([search EXCEPT !.query = q], entries)
       THEN /\ search' = [search EXCEPT !.query = q]
            /\ pc' = "panicked"
       ELSE /\ LET s == update_search([search EXCEPT !.query = q], entries)
               IN  search' = IF Len(s.matches) > 0
                             THEN [s EXCEPT !.current_match = Some(0)] ELSE s
            /\ pc' = pc
    /\ UNCHANGED <<files, appends, current_file, entries, filtered_entries,
                   enabled_levels, tail_log, config_tail_log, last_file_size,
                   file_watcher, load_path, new_size, saved_size, fault,
                   load_len>>

\* Enter in the search box and the Next Match button.
NextMatch ==
    /\ pc = "idle"
    /\ search' = next_match(search)
    /\ UNCHANGED <<files, appends, current_file, entries, filtered_entries,
                   enabled_levels, tail_log, config_tail_log, last_file_size,
                   file_watcher, pc, load_path, new_size, saved_size, fault,
                   load_len>>

\* Shift+Enter in the search box and the Previous Match button.
PrevMatch ==
    /\ pc = "idle"
    /\ search' = prev_match(search)
    /\ UNCHANGED <<files, appends, current_file, entries, filtered_entries,
                   enabled_levels, tail_log, config_tail_log, last_file_size,
                   file_watcher, pc, load_path, new_size, saved_size, fault,
                   load_len>>

\* The Case Sensitive checkbox: ui.checkbox writes the field, nothing else
\* runs.
ToggleCase ==
    /\ pc = "idle"
    /\ search' = [search EXCEPT !.case_sensitive = ~@]
    /\ UNCHANGED <<files, appends, current_file, entries, filtered_entries,
                   enabled_levels, tail_log, config_tail_log, last_file_size,
                   file_watcher, pc, load_path, new_size, saved_size, fault,
                   load_len>>

\* The Regex checkbox, likewise.
ToggleRegex ==
    /\ pc = "idle"
    /\ search' = [search EXCEPT !.use_regex = ~@]
    /\ UNCHANGED <<files, appends, current_file, entries, filtered_entries,
                   enabled_levels, tail_log, config_tail_log, last_file_size,
                   file_watcher, pc, load_path, new_size, saved_size, fault,
                   load_len>>

\* The Tail Log checkbox without the stop of its else branch: the watch
\* survives the switch to off.
ToggleTail_keeps_watch(ok) ==
    /\ pc = "idle"
    /\ tail_log' = ~tail_log
    /\ config_tail_log' = tail_log'
    /\ file_watcher' =
         IF tail_log' # config_tail_log /\ tail_log' /\ current_file # None
         THEN watch_file(file_watcher, current_file[1], ok)
         ELSE file_watcher
    /\ UNCHANGED <<files, appends, current_file, entries, filtered_entries,
                   search, enabled_levels, last_file_size, pc, load_path,
                   new_size, saved_size, fault, load_len>>

\* The Tail Log checkbox; ok is how watch_file ends.
ToggleTail(ok) ==
    /\ pc = "idle"
    /\ tail_log' = ~tail_log
    /\ config_tail_log' = tail_log'
    /\ file_watcher' =
         IF tail_log' # config_tail_log
         THEN IF tail_log'
              THEN IF current_file # None
                   THEN watch_file(file_watcher, current_file[1], ok)
                   ELSE file_watcher
              ELSE stop(file_watcher)
         ELSE file_watcher
    /\ UNCHANGED <<files, appends, current_file, entries, filtered_entries,
                   search, enabled_levels, last_file_size, pc, load_path,
                   new_size, saved_size, fault, load_len>>

\* default_name: the file name of the current file with "_filtered.log"
\* after it, "export.log" when no file is open.
ExportName(cf) ==
    CASE cf = None      -> "export.log"
      [] cf = Some("A") -> "A_filtered.log"
      [] OTHER          -> "B_filtered.log"

ExportPaths == {"export.log", "A_filtered.log", "B_filtered.log"}

\* The raw_line of the entries at the indices fe[k..], joined by newlines.
RECURSIVE JoinIndexed(_, _, _)
JoinIndexed(es, fe, k) ==
    IF k > Len(fe) THEN <<>>
    ELSE IF k = Len(fe) THEN es[fe[k] + 1].raw_line
    ELSE es[fe[k] + 1].raw_line \o <<"n">> \o JoinIndexed(es, fe, k + 1)

\* The export of every entry, whatever the filter lets through.
ExportContent_all_entries(es, fe) == JoinIndexed(es, AllIndices(Len(es)), 1)

\* content: the raw_line of the filtered entries, joined by "\n".
ExportContent(es, fe) == JoinIndexed(es, fe, 1)

\* The Export Filtered Logs button; ok is how fs::write ends.  The file is
\* written in the current directory, taken to be another directory than the
\* watched one.
Export(ok) ==
    /\ pc = "idle"
    /\ files' = IF filtered_entries # <<>> /\ ok
                THEN [files EXCEPT ![ExportName(current_file)] =
                         ExportContent(entries, filtered_entries)]
                ELSE files
    /\ UNCHANGED <<appends, current_file, entries, filtered_entries, search,
                   enabled_levels, tail_log, config_tail_log, last_file_size,
                   file_watcher, pc, load_path, new_size, saved_size, fault,
                   load_len>>

Tick == TickPoll \/ TickStat \/ TickRead

Load ==
    \/ \E p \in Paths, f \in {"ok", "open_err", "stat_err"} : LoadOpen(p, f)
    \/ LoadRead
    \/ LoadWatch

Next ==
    \/ \E p \in Paths, c \in Chunks : WriterAppend(p, c)
    \/ Load
    \/ Tick
    \/ \E l \in ToggleLevels : ToggleLevel(l)
    \/ \E q \in Queries : SetQuery(q)
    \/ NextMatch
    \/ PrevMatch
    \/ \E ok \in BOOLEAN : ToggleTail(ok)

Spec == Init /\ [][Next]_vars

\* A handler that has started runs to its end: load_file and
\* check_file_updates run on the UI thread and none of their calls blocks.
\* Whenever pc is not "idle" the handler's next step is enabled, so this
\* constrains no finite run.
HandlerReturns == []<>(pc = "idle")

\* update calls check_file_updates on every frame and asks for the next
\* frame with request_repaint.
FairSpec == Spec /\ WF_vars(TickPoll) /\ HandlerReturns

(* ------------------- the search bar on a loaded file ------------------- *)

\* What file A holds in the runs of the search bar: three entries of three
\* levels, one of them with the upper-case form of the character searched
\* for; an entry with a continuation line and a parenthesis; and an entry
\* with three occurrences of a character in a row (one in upper case),
\* followed by two others, the last with a two-byte character.
SearchContents ==
    { <<"E", "x", "n", "A", "X", "n", "D", "x", "n">>,
      <<"E", "(", "n", "x", "n", "A", "y", "n">>,
      <<"D", "x", "X", "x", "n", "A", "y", "n", "D", "c3", "a9", "n">> }

SearchQueries ==
    {<<>>, <<"x">>, <<"X">>, <<"(">>, <<"x", "x">>, <<"c3", "a9">>}

SearchToggleLevels == {"Error", "Info"}

\* The session after load_file(A) has returned Ok, nothing else done yet;
\* no file has been exported (an absent file reads as an empty one).
SearchInit ==
    \E c \in SearchContents :
        LET es == parse_file(c)
            r  == apply_filters(update_search(SearchNew, es), es, Levels)
        IN  /\ files = [p \in Paths \cup ExportPaths |->
                            IF p = "A" THEN c
                            ELSE IF p \in Paths THEN InitialContent[p]
                            ELSE <<>>]
            /\ appends = 0
            /\ current_file = Some("A")
            /\ entries = es
            /\ filtered_entries = r.filtered
            /\ search = r.search
            /\ enabled_levels = Levels
            /\ tail_log = TRUE
            /\ config_tail_log = TRUE
            /\ last_file_size = Len(c)
            /\ file_watcher = watch_file(FileWatcherNew, "A", TRUE)
            /\ pc = "idle"
            /\ load_path = None
            /\ new_size = 0
            /\ saved_size = 0
            /\ fault = "ok"
            /\ load_len = Len(c)

SearchNext ==
    \/ \E q \in SearchQueries : SetQuery(q)
    \/ NextMatch
    \/ PrevMatch
    \/ ToggleCase
    \/ ToggleRegex
    \/ \E l \in SearchToggleLevels : ToggleLevel(l)
    \/ \E ok \in BOOLEAN : Export(ok)

SearchSpec == SearchInit /\ [][SearchNext]_vars

(* ------------------- the watcher's queue on a loaded file -------------- *)

\* The channel holds at most this many items.
MaxQueue == 3

\* What notify sends: a modify event for the watched file, one for another
\* file of the directory, an event of another kind, and an error result.
QueueItems ==
    { [kind |-> "Modify", path |-> "A"], [kind |-> "Modify", path |-> "B"],
      [kind |-> "Create", path |-> "A"], [kind |-> "Error", path |-> "A"] }

\* notify's thread sends an item through the channel.
Deliver(item) ==
    /\ file_watcher.watcher
    /\ Len(file_watcher.receiver[1]) < MaxQueue
    /\ file_watcher' = [file_watcher EXCEPT !.receiver =
                           Some(Append(file_watcher.receiver[1], item))]
    /\ UNCHANGED <<files, appends, current_file, entries, filtered_entries,
                   search, enabled_levels, tail_log, config_tail_log,
                   last_file_size, pc, load_path, new_size, saved_size, fault,
                   load_len>>

\* The writer is silent: the file does not grow, and every tick ends at the
\* comparison of the sizes at the latest.
WatcherNext ==
    \/ \E item \in QueueItems : Deliver(item)
    \/ TickPoll
    \/ TickStat

WatcherSpec == SearchInit /\ [][WatcherNext]_vars

(* ---------------------- a file that is cut short ----------------------- *)

\* The writer appends complete lines.
RaceChunks == {<<"x", "n">>}

\* What is left of a file that the writer has truncated or rewritten:
\* nothing, or one entry.
TruncContents == {<<>>, <<"E", "x", "n">>}

\* The writer replaces a file by a shorter content.
WriterTruncate(p, content) ==
    /\ appends < MaxAppends
    /\ ByteSize(content) < ByteSize(files[p])
    /\ appends' = appends + 1
    /\ files' = [files EXCEPT ![p] = content]
    /\ file_watcher' = Notified(file_watcher, p)
    /\ UNCHANGED <<current_file, entries, filtered_entries, search,
                   enabled_levels, tail_log, config_tail_log, last_file_size,
                   pc, load_path, new_size, saved_size, fault, load_len>>

TruncNext ==
    \/ \E c \in RaceChunks : WriterAppend("A", c)
    \/ \E c \in TruncContents : WriterTruncate("A", c)
    \/ \E f \in {"ok", "open_err", "stat_err"} : LoadOpen("A", f)
    \/ LoadRead
    \/ LoadWatch
    \/ Tick

TruncSpec == Init /\ [][TruncNext]_vars

(* --------------------- runs without a failing call --------------------- *)

\* The session with a writer of complete lines and in which no call of the
\* file system or of notify fails.
RaceNext ==
    \/ \E c \in RaceChunks : WriterAppend("A", c)
    \/ \E p \in Paths : LoadOpen(p, "ok") /\ fault' = "ok"
    \/ LoadRead /\ fault' = "ok"
    \/ LoadWatch
    \/ TickPoll /\ fault' = "ok"
    \/ TickStat /\ fault' = "ok"
    \/ TickRead

RaceSpec == Init /\ [][RaceNext]_vars

(* ----------------------- a file around the threshold ------------------ *)

\* A line of 1,000,000 bytes that starts an entry.
BigLine == <<"D", "x", "M", "n">>

RECURSIVE BigLines(_)
BigLines(k) == IF k = 0 THEN <<>> ELSE BigLine \o BigLines(k - 1)

\* What file A holds: exactly 10,000,000 bytes, 10,000,003 bytes, and
\* 11,000,000 bytes.
LargeContents ==
    { BigLines(10), BigLines(10) \o <<"D", "y", "n">>, BigLines(11) }

\* The writer appends complete lines.
LargeChunks == {<<"x", "n">>}

\* The program has just started; file A is around the threshold.
LargeInit ==
    /\ \E c \in LargeContents :
          files = [p \in Paths |-> IF p = "A" THEN c ELSE InitialContent[p]]
    /\ appends = 0
    /\ current_file = None
    /\ entries = <<>>
    /\ filtered_entries = <<>>
    /\ search = SearchNew
    /\ enabled_levels = Levels
    /\ tail_log = TRUE
    /\ config_tail_log = TRUE
    /\ last_file_size = 0
    /\ file_watcher = FileWatcherNew
    /\ pc = "idle"
    /\ load_path = None
    /\ new_size = 0
    /\ saved_size = 0
    /\ fault = "ok"
    /\ load_len = 0

LargeNext ==
    \/ \E c \in LargeChunks : WriterAppend("A", c)
    \/ \E f \in {"ok", "open_err", "stat_err"} : LoadOpen("A", f)
    \/ LoadRead
    \/ LoadWatch
    \/ Tick

LargeSpec == LargeInit /\ [][LargeNext]_vars

(* ---------------- parse_file, update_search, apply_filters ------------- *)

\* A content has at most this many lines.
MaxLines == 3

\* The lines a content is made of: an error-log line, an access-log line, a
\* plain line, a plain line with an upper-case character and a parenthesis,
\* an empty line, a line of one space, and a line that is "01." only.
FnLineKinds ==
    { <<"E", "x">>, <<"A", "y">>, <<"x">>, <<"X", "(">>, <<>>, <<"s">>,
      <<"D">> }

\* The lines, each followed by a newline.
RECURSIVE Unlines(_)
Unlines(ls) ==
    IF ls = <<>> THEN <<>>
    ELSE Head(ls) \o <<"n">> \o Unlines(Tail(ls))

FnLineSeqs == UNION {[1..n -> FnLineKinds] : n \in 0..MaxLines}

\* The contents: every sequence of lines, with and without the newline of
\* the last line.
FnContents ==
    {Unlines(ls) : ls \in FnLineSeqs} \cup
    {SubSeq(Unlines(ls), 1, Len(Unlines(ls)) - 1) : ls \in FnLineSeqs \ {<<>>}}

FnQueries == {<<>>, <<"x">>, <<"(">>}

FnLevelSets == {Levels, {"Error"}}

\* The arguments: a content, the fields of a SearchState that are inputs of
\* update_search and apply_filters, and the enabled levels.
FnInit ==
    /\ \E c \in FnContents : files = [p \in Paths |-> c]
    /\ \E q \in FnQueries, cs \in BOOLEAN, re \in BOOLEAN, som \in BOOLEAN :
          search = [SearchNew EXCEPT !.query = q, !.case_sensitive = cs,
                                     !.use_regex = re,
                                     !.show_only_matches = som]
    /\ enabled_levels \in FnLevelSets
    /\ appends = 0
    /\ current_file = None
    /\ entries = <<>>
    /\ filtered_entries = <<>>
    /\ tail_log = TRUE
    /\ config_tail_log = TRUE
    /\ last_file_size = 0
    /\ file_watcher = FileWatcherNew
    /\ pc = "fn_parse"
    /\ load_path = None
    /\ new_size = 0
    /\ saved_size = 0
    /\ fault = "ok"
    /\ load_len = 0

\* entries = parser.parse_file(&content)
FnParse ==
    /\ pc = "fn_parse"
    /\ entries' = parse_file(files["A"])
    /\ pc' = "fn_search"
    /\ UNCHANGED <<files, appends, current_file, filtered_entries, search,
                   enabled_levels, tail_log, config_tail_log, last_file_size,
                   file_watcher, load_path, new_size, saved_size, fault,
                   load_len>>

\* search.update_search(&entries)
FnSearch ==
    /\ pc = "fn_search"
    /\ search' = update_search(search, entries)
    /\ pc' = "fn_filter"
    /\ UNCHANGED <<files, appends, current_file, entries, filtered_entries,
                   enabled_levels, tail_log, config_tail_log, last_file_size,
                   file_watcher, load_path, new_size, saved_size, fault,
                   load_len>>

\* apply_filters()
FnFilter ==
    /\ pc = "fn_filter"
    /\ LET r == apply_filters(search, entries, enabled_levels)
       IN  /\ search' = r.search
           /\ filtered_entries' = r.filtered
    /\ pc' = "fn_done"
    /\ UNCHANGED <<files, appends, current_file, entries, enabled_levels,
                   tail_log, config_tail_log, last_file_size, file_watcher,
                   load_path, new_size, saved_size, fault, load_len>>

\* A second call of parse_file on the same parser and the same content, with
\* its entries put after those of the first call.
FnParseAgain_appends ==
    /\ pc = "fn_done"
    /\ entries' = entries \o parse_file(files["A"])
    /\ pc' = "fn_again"
    /\ UNCHANGED <<files, appends, current_file, filtered_entries, search,
                   enabled_levels, tail_log, config_tail_log, last_file_size,
                   file_watcher, load_path, new_size, saved_size, fault,
                   load_len>>

\* entries = parser.parse_file(&content), a second time on the same parser
\* and the same content.
FnParseAgain ==
    /\ pc = "fn_done"
    /\ entries' = parse_file(files["A"])
    /\ pc' = "fn_again"
    /\ UNCHANGED <<files, appends, current_file, filtered_entries, search,
                   enabled_levels, tail_log, config_tail_log, last_file_size,
                   file_watcher, load_path, new_size, saved_size, fault,
                   load_len>>

FnNext == FnParse \/ FnSearch \/ FnFilter \/ FnParseAgain

FnSpec == FnInit /\ [][FnNext]_vars

(* ------------------------------ parse_line ---------------------------- *)

\* A line has at most this many tokens.
MaxLineLen == 2

\* The tokens of a line: every head, a plain character and a space.  A
\* line handed to parse_line holds no newline.
LineTokens == StructuredHeads \cup AccessHeads \cup DigitHeads \cup {"x", "s"}

LineInputs == UNION {[1..n -> LineTokens] : n \in 0..MaxLineLen}

\* The entries the caller already has: none, or one.
LinePriorEntries == {<<>>, <<parse_line(<<"x">>, 1)>>}

\* The arguments of one call: the line, and the entries whose count gives
\* the line number.
LineInit ==
    /\ \E l \in LineInputs : files = [p \in Paths |-> l]
    /\ entries \in LinePriorEntries
    /\ search = SearchNew
    /\ enabled_levels = Levels
    /\ appends = 0
    /\ current_file = None
    /\ filtered_entries = <<>>
    /\ tail_log = TRUE
    /\ config_tail_log = TRUE
    /\ last_file_size = 0
    /\ file_watcher = FileWatcherNew
    /\ pc = "line_parse"
    /\ load_path = None
    /\ new_size = 0
    /\ saved_size = 0
    /\ fault = "ok"
    /\ load_len = 0

\* parser.parse_line(line, n) with n one past the entries already there,
\* and the push of the entry it returns.
ParseLine ==
    /\ pc = "line_parse"
    /\ entries' = Append(entries, parse_line(files["A"], Len(entries) + 1))
    /\ pc' = "line_done"
    /\ UNCHANGED <<files, appends, current_file, filtered_entries, search,
                   enabled_levels, tail_log, config_tail_log, last_file_size,
                   file_watcher, load_path, new_size, saved_size, fault,
                   load_len>>

LineSpec == LineInit /\ [][ParseLine]_vars

(* ------------------------------ claims -------------------------------- *)

\* The content of the current file.
CurrentContent ==
    IF current_file = None THEN <<>> ELSE files[current_file[1]]

\* A step that ends check_file_updates after its read of the file.
TailStepEnds == pc = "tick_read" /\ pc' = "idle"

\* The first k tokens of a text, and what follows them.
Prefix(text, k) == SubSeq(text, 1, k)

Suffix(text, k) == SubSeq(text, k + 1, Len(text))

\* The pieces that end in a newline.
CompletePieces(pieces) == SelectSeq(pieces, LAMBDA q : q[Len(q)] = "n")

\* How many newline-terminated, non-blank lines a text holds.
CompleteLineCount(text) ==
    Len(NewLines(CompletePieces(ReadLines(text)), 0, <<>>))

\* C1: when a file of size S was loaded, text T is appended and a tick
\* detects the change with nothing failing, the entries are
\* parse_file(original) followed by one entry per non-blank line of T, and
\* last_file_size is S + len(T).
C1_TailingCorrectness ==
    [][ ( /\ TailStepEnds
          /\ fault = "ok"
          /\ new_size = Len(CurrentContent)
          /\ entries = parse_file(Prefix(CurrentContent, last_file_size)) )
        => /\ entries' =
                parse_file(Prefix(CurrentContent, last_file_size)) \o
                NewLines(ReadLines(Suffix(CurrentContent, last_file_size)),
                         Len(entries), <<>>)
           /\ last_file_size' = Len(CurrentContent) ]_vars

\* C2: whenever no handler is running, index i is in filtered_entries iff
\* entries[i].level is enabled and (show_only_matches is off, or the query is
\* empty, or i is a match).
C2_FilterRule ==
    pc = "idle" =>
        \A i \in 0..(Len(entries) - 1) :
            (\E k \in 1..Len(filtered_entries) : filtered_entries[k] = i)
            <=> /\ entries[i + 1].level \in enabled_levels
                /\ \/ ~search.show_only_matches
                   \/ search.query = <<>>
                   \/ is_match(search, i)

\* C3: the line_number of the entries is strictly increasing.
C3_LineNumbersIncrease ==
    \A i \in 1..(Len(entries) - 1) :
        entries[i].line_number < entries[i + 1].line_number

\* C4: a tail step that saw size N above the watermark W makes entries of
\* the bytes [W, N) and of nothing beyond N.
C4_ReadsExactRange ==
    [][ (TailStepEnds /\ fault = "ok")
        => entries' = entries \o
               NewLines(ReadLines(SubSeq(CurrentContent, last_file_size + 1,
                                         new_size)),
                        Len(entries), <<>>) ]_vars

\* C5: a tail step makes no entry of trailing content whose newline has not
\* been written yet.
C5_PartialLineNotConsumed ==
    [][ (TailStepEnds /\ fault = "ok")
        => entries' = entries \o
               NewLines(CompletePieces(
                            ReadLines(Suffix(CurrentContent, last_file_size))),
                        Len(entries), <<>>) ]_vars

\* C6: a tail step in which stat, open, seek or read fails leaves entries,
\* filtered_entries, the search state and last_file_size as they were.
C6_FailedTailStepChangesNothing ==
    [][ (pc \in {"tick_stat", "tick_read"} /\ pc' = "idle" /\ fault # "ok")
        => UNCHANGED <<entries, filtered_entries, search, last_file_size>>
      ]_vars

\* A tail step is failing on I/O while the file holds a complete non-blank
\* line beyond the watermark.
FailingWithBacklog ==
    /\ pc \in {"tick_stat", "tick_read"}
    /\ fault \in {"stat_err", "open_err", "read_err"}
    /\ tail_log
    /\ CompleteLineCount(Suffix(CurrentContent, last_file_size)) > 0

\* The tail steps have caught up with the file, the file was loaded again,
\* or tailing was switched off.
CaughtUp ==
    \/ last_file_size >= Len(CurrentContent)
    \/ ~tail_log
    \/ ~is_watching(file_watcher)
    \/ pc \in {"load_read", "load_watch"}

\* C7: after a tail step that failed on I/O while the file holds a complete
\* line beyond the watermark, later ticks read the file again: the watermark
\* reaches the size of the file.
C7_FailedReadIsRetried == FailingWithBacklog ~> CaughtUp

\* C8: a load that fails leaves current_file, entries, filtered_entries, the
\* search state, last_file_size and the watcher as they were when it was
\* called.
C8_FailedLoadKeepsState ==
    [][ (pc = "load_read" /\ pc' = "idle" /\ fault = "read_err")
        => /\ last_file_size' = saved_size
           /\ UNCHANGED <<current_file, entries, filtered_entries, search,
                          file_watcher>> ]_vars

\* C9: check_for_changes answers true only for a modify event of the current
\* file that is in the queue of the current watch, and every step that
\* installs or removes a watch (a load with tailing on, the Tail Log
\* checkbox) leaves no event of the earlier watch in the queue.
C9_NoStaleEvents ==
    /\ [][ (pc = "idle" /\ pc' = "tick_stat")
           => /\ file_watcher.receiver # None
              /\ \E i \in 1..Len(file_watcher.receiver[1]) :
                    /\ file_watcher.receiver[1][i].kind = "Modify"
                    /\ file_watcher.receiver[1][i].path = current_file[1] ]_vars
    /\ [][ ( \/ (pc = "load_watch" /\ pc' = "idle" /\ tail_log)
             \/ tail_log' # tail_log )
           => file_watcher'.receiver \in {None, Some(<<>>)} ]_vars

\* C9, its case: file B is the current file and is watched, A has been
\* written to since, and the event of that write is in the queue.
C9_Witness ==
    /\ pc = "idle"
    /\ current_file = Some("B")
    /\ file_watcher.path = Some("B")
    /\ files["A"] # InitialContent["A"]
    /\ file_watcher.receiver # None
    /\ \E i \in 1..Len(file_watcher.receiver[1]) :
          file_watcher.receiver[1][i].path = "A"

\* How many entries the session owes: those of the content the load read and
\* one per complete non-blank line written after it.
EntriesOwed ==
    Len(parse_file(Prefix(CurrentContent, load_len)))
    + CompleteLineCount(Suffix(CurrentContent, load_len))

\* Tailing is on, the current file is watched, and fewer entries are held
\* than are owed.
Behind ==
    /\ pc = "idle"
    /\ current_file # None
    /\ tail_log
    /\ is_watching(file_watcher)
    /\ Len(entries) < EntriesOwed

Shown ==
    \/ (pc = "idle" /\ Len(entries) >= EntriesOwed)
    \/ ~tail_log
    \/ ~is_watching(file_watcher)
    \/ pc \in {"load_read", "load_watch"}

\* C10: with tailing on and the file watched, every complete non-blank line
\* appended after the load's read eventually is an entry.
C10_AppendedLinesAppear == Behind ~> Shown

\* C11: update_search in regex mode with a non-empty query that does not
\* compile as a regex yields no match and no current match, whatever the
\* entries hold.
C11_InvalidRegexNoMatches ==
    ( /\ pc = "fn_filter"
      /\ search.use_regex
      /\ search.query # <<>>
      /\ ~RegexCompiles(search.query) )
    => (search.matches = <<>> /\ search.current_match = None)

\* C12: whenever no handler is running, the match set is what a search of
\* the current entries with the current query, case_sensitive and use_regex
\* gives.
C12_MatchesAreCurrent ==
    pc = "idle" =>
        /\ search.matches = update_search(search, entries).matches
        /\ search.match_positions =
               update_search(search, entries).match_positions

\* A step in which update_search ran: a query edit, a level toggle with a
\* query typed, the end of a load, a tail step that found new lines.
SearchRebuilt ==
    \/ search'.query # search.query
    \/ (enabled_levels' # enabled_levels /\ search.query # <<>>)
    \/ (pc = "load_watch" /\ pc' = "idle")
    \/ (pc = "tick_read" /\ entries' # entries)

\* C13: after every rebuild of the match set the cursor is index 0 when the
\* match list is non-empty and none otherwise, and with an empty query the
\* match list is empty.
C13_CursorAfterRebuild ==
    [][ SearchRebuilt
        => /\ search'.current_match =
                  (IF search'.matches = <<>> THEN None ELSE Some(0))
           /\ search'.query = <<>> => search'.matches = <<>> ]_vars

\* C13, its case: the cursor has been moved off the first of several
\* matches, so that a rebuild has a cursor to reset.
C13_Witness ==
    /\ pc = "idle"
    /\ Len(search.matches) >= 2
    /\ search.current_match = Some(1)
    /\ search.query # <<>>

\* C14: with N > 0 matches next_match moves the cursor from c to c + 1 and
\* from N - 1 to 0, prev_match moves it from c to c - 1 and from 0 to N - 1;
\* with no match both leave the search state, whose cursor is none, as it is.
C14_NavigationWraps ==
    /\ [][ (NextMatch /\ search.matches # <<>> /\ search.current_match # None)
           => /\ search'.current_match =
                     Some(IF search.current_match[1] = Len(search.matches) - 1
                          THEN 0 ELSE search.current_match[1] + 1)
              /\ search'.matches = search.matches ]_vars
    /\ [][ (PrevMatch /\ search.matches # <<>> /\ search.current_match # None)
           => /\ search'.current_match =
                     Some(IF search.current_match[1] = 0
                          THEN Len(search.matches) - 1
                          ELSE search.current_match[1] - 1)
              /\ search'.matches = search.matches ]_vars
    /\ [](search.matches = <<>>
          => /\ search.current_match = None
             /\ next_match(search) = search
             /\ prev_match(search) = search)

\* C14, its case: three matches and the cursor on the last of them, where
\* next_match has to wrap and where prev_match from 0 arrives.
C14_Witness ==
    /\ Len(search.matches) = 3
    /\ search.current_match = Some(2)

\* The indices the filter rule lets through.
VisibleIndices ==
    { i \in 0..(Len(entries) - 1) :
        /\ entries[i + 1].level \in enabled_levels
        /\ \/ ~search.show_only_matches
           \/ search.query = <<>>
           \/ \E k \in 1..Len(search.matches) : search.matches[k] = i }

\* C15: apply_filters gives the ascending list of exactly the indices i with
\* entries[i].level enabled and (show_only_matches off, or the query empty,
\* or i a match); with the six levels enabled and show_only_matches off that
\* is every index in order.
C15_ApplyFiltersRule ==
    pc = "fn_done" =>
        /\ \A k \in 1..Len(filtered_entries) :
              filtered_entries[k] \in VisibleIndices
        /\ \A i \in VisibleIndices :
              \E k \in 1..Len(filtered_entries) : filtered_entries[k] = i
        /\ \A k \in 1..(Len(filtered_entries) - 1) :
              filtered_entries[k] < filtered_entries[k + 1]
        /\ (enabled_levels = Levels /\ ~search.show_only_matches)
           => filtered_entries = [k \in 1..Len(entries) |-> k - 1]

\* C15, its case: three entries, only Error enabled, show_only_matches on,
\* a query that matches the Error entry at index 0 only, and [0] returned.
C15_Witness ==
    /\ pc = "fn_done"
    /\ Len(entries) = 3
    /\ entries[1].level = "Error"
    /\ enabled_levels = {"Error"}
    /\ search.show_only_matches
    /\ search.query # <<>>
    /\ search.matches = <<0>>
    /\ filtered_entries = <<0>>

\* The physical lines of the content parsed.
PhysicalLines == Lines(files["A"])

\* The indices of the lines that start an entry.
EntryStarts ==
    { i \in 1..Len(PhysicalLines) : StartsNewEntry(PhysicalLines[i]) }

\* The k-th of them.
EntryStartAt(k) ==
    CHOOSE i \in EntryStarts : Cardinality({j \in EntryStarts : j < i}) = k - 1

\* A line that is absorbed when it follows an entry: not blank, not a start.
Absorbable(j) ==
    /\ ~StartsNewEntry(PhysicalLines[j])
    /\ \E t \in 1..Len(PhysicalLines[j]) : PhysicalLines[j][t] \notin Whitespace

\* The last line of the maximal run of absorbable lines after line s.
RunEnd(s) ==
    CHOOSE e \in s..Len(PhysicalLines) :
        /\ \A j \in (s + 1)..e : Absorbable(j)
        /\ e = Len(PhysicalLines) \/ ~Absorbable(e + 1)

\* C16: parse_file gives one entry per line that starts an entry, and the
\* entry's raw_line is that line followed, joined by newlines, by exactly the
\* maximal run of following lines that are not blank and start no entry.
C16_ContinuationFolding ==
    pc = "fn_search" =>
        /\ Len(entries) = Cardinality(EntryStarts)
        /\ \A k \in 1..Len(entries) :
              /\ entries[k].line_number = EntryStartAt(k)
              /\ Lines(entries[k].raw_line) =
                     SubSeq(PhysicalLines, EntryStartAt(k),
                            RunEnd(EntryStartAt(k)))

\* C16, its case: an entry that absorbed one plain line and whose run a
\* blank line ended.
C16_Witness ==
    /\ pc = "fn_search"
    /\ Len(PhysicalLines) = 3
    /\ IsBlank(PhysicalLines[3])
    /\ Len(entries) = 1
    /\ entries[1].raw_line = <<"E", "x", "n", "x">>

\* The raw_line of the entries from the k-th on, joined by newlines.
RECURSIVE JoinRaw(_, _)
JoinRaw(es, k) ==
    IF k > Len(es) THEN <<>>
    ELSE IF k = Len(es) THEN es[k].raw_line
    ELSE es[k].raw_line \o <<"n">> \o JoinRaw(es, k + 1)

\* The non-blank physical lines from the first entry's line on.
LinesOwedByRoundTrip ==
    SelectSeq(SubSeq(PhysicalLines, EntryStartAt(1), Len(PhysicalLines)),
              LAMBDA l : \E t \in 1..Len(l) : l[t] \notin Whitespace)

\* C17: the raw_line of the entries joined by newlines gives back the
\* content from its first entry on: no non-blank line after the first entry
\* is lost.
C17_RoundTrip ==
    (pc = "fn_search" /\ entries # <<>>)
    => Lines(JoinRaw(entries, 1)) = LinesOwedByRoundTrip

\* C18: every entry's line_number is the 1-based index, in the current
\* file, of the entry's first physical line.
C18_LineNumberIsPhysicalLine ==
    (pc = "idle" /\ current_file # None) =>
        \A k \in 1..Len(entries) :
            /\ entries[k].line_number \in 1..Len(Lines(CurrentContent))
            /\ Lines(entries[k].raw_line)[1] =
                   Lines(CurrentContent)[entries[k].line_number]

\* C19: when load_file returns Ok, the entries are parse_file of the content
\* read, last_file_size is the size of that content, the match set and the
\* filtered indices are those of the new entries, and the watcher watches the
\* path iff tailing is on.
C19_LoadReinitializes ==
    [][ (pc = "load_watch" /\ pc' = "idle")
        => /\ entries' = parse_file(Prefix(files[load_path[1]], load_len))
           /\ current_file' = load_path
           /\ last_file_size' = load_len
           /\ search' = update_search(search', entries')
           /\ filtered_entries' =
                  apply_filters(search', entries', enabled_levels').filtered
           /\ tail_log' <=> ( /\ is_watching(file_watcher')
                              /\ file_watcher'.path = load_path ) ]_vars

IsPrefix(a, b) == Len(a) <= Len(b) /\ SubSeq(b, 1, Len(a)) = a

\* C20: over a tail step the entries before are a prefix of the entries
\* after, and a step after which they are not is load_file's assignment.
C20_TailStepAppendsOnly ==
    /\ [][ ( \/ pc \in {"tick_stat", "tick_read"}
             \/ pc' \in {"tick_stat", "tick_read"} )
           => IsPrefix(entries, entries') ]_vars
    /\ [][ ~IsPrefix(entries, entries') => pc = "load_read" ]_vars

\* C20, its case: a tail step has added entries to those of the load.
C20_Witness ==
    /\ pc = "idle"
    /\ current_file # None
    /\ parse_file(Prefix(CurrentContent, load_len)) # <<>>
    /\ Len(entries) > Len(parse_file(Prefix(CurrentContent, load_len)))


\* C21: while tailing is off or the watcher is stopped, a tick changes
\* nothing (check_file_updates returns at its guard, so no step of Tick that
\* changes a variable is possible, however much the file has grown); and a
\* stopped watcher is not watching and reports no change.
C21_TickIsInertWhenNotTailing ==
    /\ (pc = "idle" /\ (~tail_log \/ ~is_watching(file_watcher)))
          => ~ENABLED <<Tick>>_vars
    /\ ~is_watching(stop(file_watcher))
    /\ ~check_for_changes(stop(file_watcher))

\* The file on display has grown past the watermark while tailing is off.
C21_Witness ==
    /\ pc = "idle"
    /\ ~tail_log
    /\ current_file # None
    /\ Len(CurrentContent) > last_file_size
    /\ entries # <<>>


\* The line parse_line was given and the entry it returned.
LineGiven == files["A"]

LineEntry == entries[Len(entries)]

\* C22: parse_line is total: for every line and line number it returns an
\* entry (a record of the eight fields) whose level is one of the six, whose
\* line_number is the number given and whose raw_line is the line given.
C22_ParseLineTotal ==
    pc = "line_done" =>
        /\ Len(entries) \in {1, 2}
        /\ DOMAIN LineEntry = {"line_number", "timestamp", "level", "thread",
                               "class", "message", "raw_line", "is_error_log"}
        /\ LineEntry.level \in Levels
        /\ LineEntry.line_number = Len(entries)
        /\ LineEntry.raw_line = LineGiven

\* An error-log head with nothing after it, parsed as line 2.
C22_Witness ==
    /\ pc = "line_done"
    /\ LineGiven = <<"E">>
    /\ LineEntry.line_number = 2

\* The lines of each grammar, read off the tokens.
MatchesStructured(l) ==
    Len(l) >= 2 /\ l[1] \in {"E", "W", "U", "I", "G", "T"}

MatchesAccess(l) == Len(l) >= 2 /\ l[1] = "A"

\* C23: the level of a structured line is its level token read without
\* regard to case (ERROR, warn, INFO, debug, Trace), Unknown for any other
\* token (FOO); an access line is Info; any other line is Unknown.
C23_LevelMapping ==
    pc = "line_done" =>
        LineEntry.level =
            IF MatchesStructured(LineGiven)
            THEN CASE LineGiven[1] = "E" -> "Error"
                   [] LineGiven[1] = "W" -> "Warn"
                   [] LineGiven[1] = "I" -> "Info"
                   [] LineGiven[1] = "G" -> "Debug"
                   [] LineGiven[1] = "T" -> "Trace"
                   [] OTHER              -> "Unknown"
            ELSE IF MatchesAccess(LineGiven) THEN "Info"
            ELSE "Unknown"

\* A structured line whose level token is in lower case.
C23_Witness ==
    /\ pc = "line_done"
    /\ LineGiven = <<"G", "x">>
    /\ LineEntry.level = "Debug"

\* C24: is_error_log is true exactly for a line of the structured grammar,
\* thread and class are set only for such a line, an access line has a
\* timestamp and none of the three, and a line of neither grammar has no
\* timestamp, no thread, no class, its message is the line itself and
\* is_error_log is false.
C24_GrammarFields ==
    pc = "line_done" =>
        /\ LineEntry.is_error_log <=> MatchesStructured(LineGiven)
        /\ (LineEntry.thread # None \/ LineEntry.class # None)
              => MatchesStructured(LineGiven)
        /\ MatchesStructured(LineGiven)
              => LineEntry.thread # None /\ LineEntry.timestamp # None
        /\ MatchesAccess(LineGiven) => LineEntry.timestamp # None
        /\ (~MatchesStructured(LineGiven) /\ ~MatchesAccess(LineGiven))
              => /\ LineEntry.timestamp = None
                 /\ LineEntry.thread = None
                 /\ LineEntry.class = None
                 /\ LineEntry.message = LineGiven
                 /\ ~LineEntry.is_error_log

\* An access line: a timestamp, no thread, no class, not an error log.
C24_Witness ==
    /\ pc = "line_done"
    /\ LineGiven = <<"A", "x">>
    /\ LineEntry.timestamp # None
    /\ LineEntry.thread = None
    /\ ~LineEntry.is_error_log


\* A line that begins with two digits and a dot or a slash, which every
\* line of either grammar does.
IsEntryStartLine(l) ==
    l # <<>> /\ l[1] \in {"E", "W", "U", "I", "G", "T", "A", "D"}

\* C25: parse_file emits no orphan entry: every entry begins at an
\* entry-start line (its line_number is the number of such a line and its
\* raw_line begins with that line), so the lines before the first
\* entry-start line are in no entry, and a content without an entry-start
\* line parses to no entries.
C25_NoOrphanEntry ==
    pc = "fn_search" =>
        /\ \A k \in 1..Len(entries) :
              /\ entries[k].line_number \in 1..Len(PhysicalLines)
              /\ IsEntryStartLine(PhysicalLines[entries[k].line_number])
              /\ IsPrefix(PhysicalLines[entries[k].line_number],
                          entries[k].raw_line)
        /\ (\A i \in 1..Len(PhysicalLines) :
               ~IsEntryStartLine(PhysicalLines[i])) => entries = <<>>

\* A plain line, then an entry-start line: the one entry begins at line 2.
C25_Witness ==
    /\ pc = "fn_search"
    /\ Len(PhysicalLines) >= 2
    /\ PhysicalLines[1] = <<"x">>
    /\ Len(entries) = 1
    /\ entries[1].line_number = 2


VisibleRawLines ==
    [k \in 1..Len(filtered_entries) |-> entries[filtered_entries[k] + 1].raw_line]

\* C26: the text an export writes is the raw_line of every index of the
\* filtered sequence, in the sequence's order, joined by single newlines, and
\* nothing else; the export writes no other file.
C26_ExportIsFilteredRawLines ==
    [][files' # files =>
          /\ files'[ExportName(current_file)] =
                JoinLines(VisibleRawLines, 1, Len(VisibleRawLines) + 1)
          /\ \A p \in DOMAIN files \ {ExportName(current_file)} :
                files'[p] = files[p]]_vars

\* The Error entry is filtered out and the export holds the two others.
C26_Witness ==
    /\ filtered_entries = <<1, 2>>
    /\ Len(entries) = 3
    /\ files["A_filtered.log"] = <<"A", "X", "n", "D", "x">>


\* The spans the plain-text search owes for one raw_line: one for every
\* offset at which the query occurs, in ascending order.
ExpectedSpans(s, text) ==
    LET t  == IF s.case_sensitive THEN text ELSE ToLowercase(text)
        q  == IF s.case_sensitive THEN s.query ELSE ToLowercase(s.query)
        ps == SelectSeq([p \in 1..(Len(t) + 1) |-> p - 1],
                        LAMBDA p : /\ p + Len(q) <= Len(t)
                                   /\ SubSeq(t, p + 1, p + Len(q)) = q)
    IN  [k \in 1..Len(ps) |-> <<ps[k], ps[k] + Len(s.query)>>]

\* The entries with a span at least, each with its spans.
ExpectedMatchPositions(s, es) ==
    SelectSeq([i \in 1..Len(es) |-> <<i - 1, ExpectedSpans(s, es[i].raw_line)>>],
              LAMBDA m : m[2] # <<>>)

\* C28: when a query is typed in plain-text mode, the search returns, every
\* entry's span list holds one span (p, p + len(query)) for every offset p at
\* which the query occurs in raw_line (both case-folded unless the search is
\* case-sensitive), in ascending order, overlapping occurrences included, and
\* the match list holds the indices of the entries with a span.
C28_PlainTextSpans ==
    [][(search'.query # search.query /\ search'.query # <<>>
            /\ ~search'.use_regex)
        => /\ pc' # "panicked"
           /\ search'.match_positions =
                 ExpectedMatchPositions(search', entries)
           /\ search'.matches =
                 [k \in 1..Len(search'.match_positions) |->
                     search'.match_positions[k][1]]]_vars


\* C29: a call of check_for_changes that takes anything from the queue
\* leaves it empty, whatever the items are, and returns true (the tick goes
\* on to the file's metadata) iff one of the items queued was a modify event
\* for the watched path.
C29_PollDrainsQueue ==
    [][(/\ pc = "idle"
        /\ file_watcher.receiver # None
        /\ file_watcher'.receiver # None
        /\ Len(file_watcher'.receiver[1]) < Len(file_watcher.receiver[1]))
       => LET q == file_watcher.receiver[1]
          IN  /\ file_watcher'.receiver[1] = <<>>
              /\ (pc' = "tick_stat") <=>
                    \E i \in 1..Len(q) :
                        /\ q[i].kind = "Modify"
                        /\ Some(q[i].path) = file_watcher.path]_vars


\* The bytes of the file on display that lie after the watermark, when they
\* are one-byte tokens all.
AfterWatermark ==
    LET f == files[current_file[1]]
    IN  SubSeq(f, Len(f) - (ByteSize(f) - last_file_size) + 1, Len(f))

\* C30: load_file sets the watermark to the size the metadata reports; for a
\* file of more than 10,000,000 bytes it parses the last 2,000,000 bytes of
\* the file and nothing else, for a file of 10,000,000 bytes or fewer the
\* whole file; and a tail step reads what lies after the watermark, one
\* entry for each of the lines appended there.
C30_LargeFileTail ==
    [][/\ (pc = "idle" /\ pc' = "load_read")
            => last_file_size' = ByteSize(files[load_path'[1]])
       /\ (pc = "load_read" /\ pc' = "load_watch")
            => LET f == files[load_path[1]]
               IN  entries' =
                     parse_file(IF last_file_size > 10000000
                                THEN DropBytes(f, ByteSize(f) - 2000000)
                                ELSE f)
       /\ (pc = "tick_read" /\ pc' = "idle" /\ fault = "ok")
            => /\ Len(entries') = Len(entries) + Len(Lines(AfterWatermark))
               /\ \A k \in (Len(entries) + 1)..Len(entries') :
                     entries'[k].raw_line = <<"x">>]_vars

\* A file of 10,000,003 bytes is on display: the watermark is its size and
\* the entries are the two of its last 2,000,000 bytes.
C30_Witness ==
    /\ pc = "idle"
    /\ current_file = Some("A")
    /\ last_file_size = 10000003
    /\ Len(entries) = 2
    /\ entries[2].raw_line = <<"D", "y">>


\* C31: the cursor is none iff the match list is empty; a cursor that is set
\* is an index of the match list, and between two handlers the match it
\* points at is an index of the entries.
C31_CursorInRange ==
    /\ (search.current_match = None) <=> (search.matches = <<>>)
    /\ search.current_match # None
          => search.current_match[1] \in 0..(Len(search.matches) - 1)
    /\ (pc = "idle" /\ search.current_match # None)
          => search.matches[search.current_match[1] + 1]
                \in 0..(Len(entries) - 1)

\* The cursor is on the last of three matches.
C31_Witness ==
    /\ pc = "idle"
    /\ Len(search.matches) = 3
    /\ search.current_match = Some(2)


\* C32: between two handlers the filtered index sequence is strictly
\* ascending and each of its indices is below the entry count, after a load
\* that replaces the entries by fewer and after a failed load as well.
C32_FilteredInBounds ==
    pc = "idle" =>
        /\ \A k \in 1..Len(filtered_entries) :
              filtered_entries[k] \in 0..(Len(entries) - 1)
        /\ \A k \in 1..(Len(filtered_entries) - 1) :
              filtered_entries[k] < filtered_entries[k + 1]

\* File B, of one entry, is on display after the writer has appended to a
\* file; and a level is filtered out.
C32_Witness ==
    /\ pc = "idle"
    /\ current_file = Some("B")
    /\ Len(entries) = 1
    /\ filtered_entries = <<0>>
    /\ files["A"] # InitialContent["A"]
    /\ "Error" \notin enabled_levels


\* The physical lines the entries stand for: those of their raw_line.
RECURSIVE LinesCovered(_)
LinesCovered(es) ==
    IF es = <<>> THEN 0
    ELSE Len(Lines(Head(es).raw_line)) + LinesCovered(Tail(es))

\* The lines of the file on display that are not empty.
NonEmptyLineCount ==
    Len(SelectSeq(Lines(CurrentContent), LAMBDA l : l # <<>>))

\* C33: whenever the writer appends, between load_file's read of the size
\* and its read of the content as well, no physical line of the file is
\* turned into an entry twice: after the load and the tail steps that follow
\* it the entries stand for no more lines than the file has.
C33_NoLineParsedTwice ==
    (pc = "idle" /\ current_file # None)
        => LinesCovered(entries) <= NonEmptyLineCount


\* C34: a tick that has detected a change and finds the file no longer than
\* the watermark changes neither the entries, nor the filtered indices, nor
\* the search state, nor the watermark; and no step but load_file's
\* assignment of the size ever lowers the watermark.
C34_ShorterFileChangesNothing ==
    [][/\ (/\ pc = "tick_stat"
           /\ pc' = "idle"
           /\ ByteSize(files[current_file[1]]) <= last_file_size)
          => UNCHANGED <<entries, filtered_entries, search, last_file_size>>
       /\ ~(pc = "idle" /\ pc' = "load_read")
          => last_file_size' >= last_file_size]_vars

\* A tick has detected a change and is about to find the file, cut short,
\* below the watermark.
C34_Witness ==
    /\ pc = "tick_stat"
    /\ fault = "ok"
    /\ entries # <<>>
    /\ ByteSize(files[current_file[1]]) < last_file_size


(* ------------- load of a prefix, then a tail step, of one file --------- *)

\* The lines of a content of which each starts an entry and none is blank:
\* an error-log line, an access-log line, "01." alone, and "01." followed by
\* a space.
PrefixLineKinds == {<<"E", "x">>, <<"A", "y">>, <<"D">>, <<"D", "s">>}

PrefixLineSeqs == UNION {[1..n -> PrefixLineKinds] : n \in 1..MaxLines}

\* The bytes of the first k lines, each with its newline.
RECURSIVE LinesSize(_, _)
LinesSize(ls, k) ==
    IF k = 0 THEN 0 ELSE Len(ls[k]) + 1 + LinesSize(ls, k - 1)

\* The file holds complete lines; last_file_size is where one of them ends,
\* or the start of the file.
PrefixInit ==
    /\ \E ls \in PrefixLineSeqs :
          /\ files = [p \in Paths |-> Unlines(ls)]
          /\ \E k \in 0..Len(ls) : last_file_size = LinesSize(ls, k)
    /\ appends = 0
    /\ current_file = Some("A")
    /\ entries = <<>>
    /\ filtered_entries = <<>>
    /\ search = SearchNew
    /\ enabled_levels = Levels
    /\ tail_log = TRUE
    /\ config_tail_log = TRUE
    /\ file_watcher = FileWatcherNew
    /\ pc = "prefix_load"
    /\ load_path = None
    /\ new_size = 0
    /\ saved_size = 0
    /\ fault = "ok"
    /\ load_len = 0

\* entries = parser.parse_file(&content) when the file ended at
\* last_file_size.
PrefixLoad ==
    /\ pc = "prefix_load"
    /\ entries' = parse_file(SubSeq(files["A"], 1, last_file_size))
    /\ pc' = "prefix_tail"
    /\ UNCHANGED <<files, appends, current_file, filtered_entries, search,
                   enabled_levels, tail_log, config_tail_log, last_file_size,
                   file_watcher, load_path, new_size, saved_size, fault,
                   load_len>>

\* The tail step of check_file_updates on the whole file, no call failing.
PrefixTail ==
    /\ pc = "prefix_tail"
    /\ LET new_lines == TailEntries(files["A"], last_file_size, "ok",
                                    Len(entries))
       IN  IF new_lines # <<>>
           THEN /\ entries' = Extend(entries, new_lines)
                /\ filtered_entries' = AllIndices(Len(entries'))
                /\ search' = update_search(search, entries')
                /\ last_file_size' = ByteSize(files["A"])
           ELSE UNCHANGED <<entries, filtered_entries, search, last_file_size>>
    /\ pc' = "prefix_done"
    /\ UNCHANGED <<files, appends, current_file, enabled_levels, tail_log,
                   config_tail_log, file_watcher, load_path, new_size,
                   saved_size, fault, load_len>>

PrefixNext == PrefixLoad \/ PrefixTail

PrefixSpec == PrefixInit /\ [][PrefixNext]_vars

\* The fields of the entries the two ways of reading are compared on.
Compared(es) ==
    [k \in 1..Len(es) |-> <<es[k].raw_line, es[k].level, es[k].line_number>>]

\* C35: for a file of complete lines each of which is non-blank and starts
\* an entry, the load of a prefix of its lines followed by a tail step over
\* the other lines gives the entries (raw_line, level, line_number) that a
\* load of the whole file gives.
C35_PrefixThenTailIsLoad ==
    pc = "prefix_done" => Compared(entries) = Compared(parse_file(files["A"]))


\* C36: between two handlers, when tailing is off the monitor is not
\* watching, and whenever the monitor is watching, the path it watches is
\* the current file.
C36_WatchFollowsFile ==
    pc # "load_watch" =>
        /\ ~tail_log => ~is_watching(file_watcher)
        /\ is_watching(file_watcher) =>
              /\ current_file # None
              /\ file_watcher.path = current_file

\* The monitor watches file B, which was loaded after file A had been
\* loaded and watched.
C36_Witness ==
    /\ pc = "idle"
    /\ is_watching(file_watcher)
    /\ current_file = Some("B")
    /\ file_watcher.path = Some("B")

\* C37: when watch_file fails in a load with tailing on, the load ends with
\* the file current, its entries kept and passed through the filters, and
\* the monitor stopped (no watcher, no receiver, no path); and while the
\* monitor is not watching, no tick goes past its first test and no step
\* other than a load changes the entries.
C37_FailedWatchStopsMonitor ==
    [][/\ (pc = "load_watch" /\ pc' = "idle" /\ fault = "watch_err")
          => /\ current_file' = load_path
             /\ entries' = entries
             /\ filtered_entries' =
                   apply_filters(update_search(search, entries), entries,
                                 enabled_levels).filtered
             /\ file_watcher' = FileWatcherNew
       /\ (pc = "idle" /\ ~is_watching(file_watcher))
          => /\ entries' = entries
             /\ pc' # "tick_stat"]_vars

\* watch_file is about to fail in a load of file B, which has entries,
\* while the monitor still watches file A with an event in its queue.
C37_Witness ==
    /\ pc = "load_watch"
    /\ fault = "watch_err"
    /\ load_path = Some("B")
    /\ entries # <<>>
    /\ is_watching(file_watcher)
    /\ file_watcher.path = Some("A")
    /\ file_watcher.receiver # Some(<<>>)


\* C38: after update_search the match list is strictly ascending with every
\* index below the number of entries; match_positions has the same length
\* and the same indices in the same order, each with at least one span; and
\* is_match(i) holds exactly when get_match_positions(i) returns a span
\* list.
C38_MatchListsParallel ==
    pc = "fn_filter" =>
        /\ \A k \in 1..Len(search.matches) :
              /\ search.matches[k] \in 0..(Len(entries) - 1)
              /\ k < Len(search.matches)
                    => search.matches[k] < search.matches[k + 1]
        /\ Len(search.match_positions) = Len(search.matches)
        /\ \A k \in 1..Len(search.match_positions) :
              /\ search.match_positions[k][1] = search.matches[k]
              /\ search.match_positions[k][2] # <<>>
        /\ \A i \in 0..Len(entries) :
              is_match(search, i) <=> get_match_positions(search, i) # None

\* update_search has found the first and the third of three entries and
\* has passed over the second.
C38_Witness ==
    /\ pc = "fn_filter"
    /\ Len(entries) = 3
    /\ search.matches = <<0, 2>>
    /\ get_match_positions(search, 1) = None
    /\ get_match_positions(search, 2) # None


\* The search state after n calls of next_match.
RECURSIVE NextMatchTimes(_, _)
NextMatchTimes(s, n) ==
    IF n = 0 THEN s ELSE NextMatchTimes(next_match(s), n - 1)

\* C39: with a match list that is not empty, next_match followed by
\* prev_match and prev_match followed by next_match give back the search
\* state they started from, cursor included; as many calls of next_match
\* as there are matches bring the cursor back; and no call changes the
\* match list or the span lists.
C39_NavigationRoundTrip ==
    search.matches # <<>> =>
        /\ prev_match(next_match(search)) = search
        /\ next_match(prev_match(search)) = search
        /\ NextMatchTimes(search, Len(search.matches)) = search
        /\ \A t \in {next_match(search), prev_match(search)} :
              /\ t.matches = search.matches
              /\ t.match_positions = search.match_positions

\* The cursor is on the second of three matches, moved there from the first
\* one: neither call wraps from here, and each wraps after one more call.
C39_Witness ==
    /\ pc = "idle"
    /\ search.matches = <<0, 1, 2>>
    /\ search.current_match = Some(1)

=============================================================================
